---- MODULE Spec2Model ----
(***************************************************************************)
(* Payroll reconciliation run of scripts/Noloco_Add_Payroll_Records.py.    *)
(*                                                                         *)
(* The store is the hosted platform's Timesheets and Payroll tables.  The  *)
(* one-to-many relation payroll -> timesheets is held once, on the child   *)
(* side (timesheet.payrollRecord); payroll.relatedTimesheets is its view.  *)
(* Dates are day numbers counted from the reference Monday 2026-01-12.     *)
(* A remote call either takes effect and returns, or raises without        *)
(* having taken effect.                                                    *)
(***************************************************************************)
EXTENDS Integers, Sequences, FiniteSets, TLC

VARIABLES today, timesheets, payrolls, employees,
          pc, current_pay_period, grouped_timesheets, idx, payroll_id,
          created_count, updated_count, processed_count, validation_failures,
          log, prev, killedFrom,
          call

store == <<today, timesheets, payrolls, employees>>
runv  == <<pc, current_pay_period, grouped_timesheets, idx, payroll_id,
           created_count, updated_count, processed_count, validation_failures>>
hist  == <<log, prev, killedFrom>>
vars  == <<today, timesheets, payrolls, employees,
           pc, current_pay_period, grouped_timesheets, idx, payroll_id,
           created_count, updated_count, processed_count, validation_failures,
           log, prev, killedFrom, call>>

(***************************************************************************)
(* Bounds of the model.                                                    *)
(***************************************************************************)
MaxTs == 3
MaxAdvance == 1

(***************************************************************************)
(* Values of the data model.                                               *)
(***************************************************************************)
Pins == {"0002", "2"}
StartDay == 3
NULL == 0

\* raw values of the approved field as the transport delivers them
ApprovedRaw == {"b:true", "b:false", "null"}

\* raw clock datetimes: an ISO string with a format suffix and an instant;
\* the timesheet upload writes ISO strings only, so every stored value parses
NoClock == [fmt |-> "none", t |-> 0]
ClockIns == {[fmt |-> "Z", t |-> 8], [fmt |-> "ms", t |-> 9]}
ClockOut == [fmt |-> "Z", t |-> 17]

NoPayroll == [id |-> NULL, related |-> {}]
NoPeriod == [start_date |-> 0 - 1, end_date |-> 0 - 1]

(***************************************************************************)
(* Pure helpers.                                                           *)
(***************************************************************************)
Range(s) == {s[i] : i \in DOMAIN s}

\* Python truthiness of a raw field value
Truthy(v) == v \notin {"b:false", "null", "s:"}

\* 2026-01-12, the day from which day numbers are counted
ReferenceMonday == 0

\* a datetime: day number, hour of the day, and its zone ("naive" has none)
DateTime(day, hour, tz) == [day |-> day, hour |-> hour, tz |-> tz]

\* replace(tzinfo=PR_TIMEZONE) / astimezone(PR_TIMEZONE), then .date();
\* America/Puerto_Rico is four hours behind UTC all year
pr_date(target_date) ==
    IF target_date.tz = "utc" /\ target_date.hour < 4 THEN target_date.day - 1
    ELSE target_date.day

\* the cycle number rounded toward zero instead of floored
calculate_biweekly_pay_period_TruncDiv(target_date) ==
    LET days_diff == pr_date(target_date) - ReferenceMonday
        cycle_number == IF days_diff >= 0 THEN days_diff \div 14
                        ELSE 0 - ((0 - days_diff) \div 14)
        cycle_offset == cycle_number * 14
    IN [start_date |-> ReferenceMonday + cycle_offset,
        end_date |-> ReferenceMonday + cycle_offset + 13]

\* the Sunday taken 14 days after the Monday
calculate_biweekly_pay_period_End14(target_date) ==
    LET days_diff == pr_date(target_date) - ReferenceMonday
        cycle_number == days_diff \div 14
        cycle_offset == cycle_number * 14
    IN [start_date |-> ReferenceMonday + cycle_offset,
        end_date |-> ReferenceMonday + cycle_offset + 14]

calculate_biweekly_pay_period(target_date) ==
    LET days_diff == pr_date(target_date) - ReferenceMonday
        cycle_number == days_diff \div 14
        cycle_offset == cycle_number * 14
    IN [start_date |-> ReferenceMonday + cycle_offset,
        end_date |-> ReferenceMonday + cycle_offset + 13]

\* date.weekday(): 0 is Monday; day 0 is a Monday
weekday(d) == d % 7

\* the result left on the end date itself when that is a Monday
calculate_payment_date_NoAdvance(pay_period_end) ==
    LET days_until_monday == (7 - weekday(pay_period_end)) % 7
    IN pay_period_end + days_until_monday

calculate_payment_date(pay_period_end) ==
    LET days_until_monday == (7 - weekday(pay_period_end)) % 7
    IN IF days_until_monday = 0 THEN pay_period_end + 7
       ELSE pay_period_end + days_until_monday

\* now = datetime.now(PR_TIMEZONE)
get_current_pay_period(now) == calculate_biweekly_pay_period(DateTime(now, 0, "pr"))

\* period date -> ISO datetime at start of day in the PR timezone
IsoStartOfDay(d) == [date |-> d, time |-> "T00:00:00-04:00"]

\* x.split('T')[0]
SplitT(x) == x.date

\* None, as returned for a missing or unparseable datetime
NoneNorm == 0 - 1

\* the suffix (milliseconds, zone) is cut off, the instant is kept
normalize_datetime_for_comparison(dt) ==
    IF dt = NoClock THEN NoneNorm
    ELSE IF dt.fmt \in {"Z", "ms"} THEN dt.t
    ELSE IF dt.fmt = "pr" THEN dt.t - 4
    ELSE NoneNorm

\* payroll.relatedTimesheets as the store serves it
RelatedTimesheets(ts, p) == {i \in DOMAIN ts : ts[i].payroll = p}

(***************************************************************************)
(* Store mutations.                                                        *)
(***************************************************************************)
\* createPayroll sent without relatedTimesheetsId
CreatePayrollLinks_NoRelation(ts, ps, ids) == ts

CreatePayrollLinks(ts, ps, ids) ==
    [i \in DOMAIN ts |-> IF i \in ids THEN [ts[i] EXCEPT !.payroll = Len(ps) + 1]
                                     ELSE ts[i]]

\* the new row replaces the table instead of being added to it
CreatePayrollRow_ReplacesTable(ps, pin, period, rate) ==
    <<[employee_id |-> pin,
       pay_period_start |-> IsoStartOfDay(period.start_date),
       pay_period_end |-> IsoStartOfDay(period.end_date),
       pay_rate |-> rate,
       payment_method |-> "DIRECT_DEPOSIT",
       status |-> "PENDING"]>>

CreatePayrollRow(ps, pin, period, rate) ==
    Append(ps, [employee_id |-> pin,
                pay_period_start |-> IsoStartOfDay(period.start_date),
                pay_period_end |-> IsoStartOfDay(period.end_date),
                pay_rate |-> rate,
                payment_method |-> "DIRECT_DEPOSIT",
                status |-> "PENDING"])

UpdatePayrollLinks(ts, id, ids) ==
    [i \in DOMAIN ts |-> IF i \in ids THEN [ts[i] EXCEPT !.payroll = id]
                         ELSE IF ts[i].payroll = id THEN [ts[i] EXCEPT !.payroll = NULL]
                         ELSE ts[i]]

(***************************************************************************)
(* get_all_timesheets / get_approved_timesheets.                           *)
(***************************************************************************)
payroll_processed(t) == t.payroll # NULL

\* datetime.fromisoformat(...).date() of the stored timesheetDate
ts_date(t) == t.timesheet_date.date

\* the filter by pay period left out
InPeriod_AnyDate(t, period) == TRUE

InPeriod(t, period) ==
    period.start_date <= ts_date(t) /\ ts_date(t) <= period.end_date

IsQualifying(t, period) ==
    Truthy(t.approved) /\ ~payroll_processed(t) /\ InPeriod(t, period)

RECURSIVE FilterIds(_, _, _)
FilterIds(ts, period, i) ==
    IF i > Len(ts) THEN <<>>
    ELSE IF IsQualifying(ts[i], period) THEN <<i>> \o FilterIds(ts, period, i + 1)
    ELSE FilterIds(ts, period, i + 1)

get_approved_timesheets(ts, period) == FilterIds(ts, period, 1)

(***************************************************************************)
(* Grouping by employee_pin, in order of first occurrence.                 *)
(***************************************************************************)
NewGroup(pin, period) ==
    [employee_pin |-> pin, pay_period |-> period, timesheets |-> <<>>,
     existing_payroll |-> NoPayroll, skip |-> FALSE]

\* int(pin): the identifier read as a number
PinAsNumber(pin) == IF pin \in {"0002", "2"} THEN 2 ELSE 0

\* the group is looked up by the numeric value of the identifier
GroupIndex_AsNumber(groups, pin) ==
    IF \E k \in DOMAIN groups : PinAsNumber(groups[k].employee_pin) = PinAsNumber(pin)
    THEN CHOOSE k \in DOMAIN groups : PinAsNumber(groups[k].employee_pin) = PinAsNumber(pin)
    ELSE 0

GroupIndex(groups, pin) ==
    IF \E k \in DOMAIN groups : groups[k].employee_pin = pin
    THEN CHOOSE k \in DOMAIN groups : groups[k].employee_pin = pin
    ELSE 0

RECURSIVE GroupFrom(_, _, _, _, _)
GroupFrom(ts, approved, period, i, groups) ==
    IF i > Len(approved) THEN groups
    ELSE LET pin == ts[approved[i]].employee_pin
             g0 == IF GroupIndex(groups, pin) = 0
                   THEN Append(groups, NewGroup(pin, period))
                   ELSE groups
             k == GroupIndex(g0, pin)
             g1 == [g0 EXCEPT ![k].timesheets = Append(@, approved[i])]
         IN GroupFrom(ts, approved, period, i + 1, g1)

group_timesheets(ts, approved, period) == GroupFrom(ts, approved, period, 1, <<>>)

(***************************************************************************)
(* find_existing_payroll: the first of the group's timesheets, in store    *)
(* order, that is linked to a payroll of this employee and this period.    *)
(***************************************************************************)
\* the checks of the record's employee and period left out
LinkMatches_AnyRecord(ts, ps, i, employee_pin, pay_period, timesheet_ids) ==
    /\ i \in timesheet_ids
    /\ ts[i].payroll # NULL
    /\ ts[i].payroll \in DOMAIN ps

LinkMatches(ts, ps, i, employee_pin, pay_period, timesheet_ids) ==
    /\ i \in timesheet_ids
    /\ ts[i].payroll # NULL
    /\ ts[i].payroll \in DOMAIN ps
    /\ ps[ts[i].payroll].employee_id = employee_pin
    /\ SplitT(ps[ts[i].payroll].pay_period_start) = pay_period.start_date
    /\ SplitT(ps[ts[i].payroll].pay_period_end) = pay_period.end_date

find_existing_payroll(ts, ps, employee_pin, pay_period, timesheet_ids) ==
    LET hits == {i \in DOMAIN ts : LinkMatches(ts, ps, i, employee_pin, pay_period, timesheet_ids)}
    IN IF hits = {} THEN NoPayroll
       ELSE LET first == CHOOSE i \in hits : \A j \in hits : i <= j
                pid == ts[first].payroll
            IN [id |-> pid, related |-> RelatedTimesheets(ts, pid)]

\* the pre-check loop over grouped_timesheets
PreCheckGroup(ts, ps, group) ==
    LET ids == Range(group.timesheets)
        existing == find_existing_payroll(ts, ps, group.employee_pin, group.pay_period, ids)
        unlinked == SelectSeq(group.timesheets, LAMBDA i : i \notin existing.related)
    IN IF existing = NoPayroll THEN group
       ELSE IF unlinked = <<>> THEN [group EXCEPT !.skip = TRUE]
       ELSE [group EXCEPT !.timesheets = unlinked, !.existing_payroll = existing]

PreCheck(ts, ps, groups) == [k \in DOMAIN groups |-> PreCheckGroup(ts, ps, groups[k])]

groups_to_process(groups) == SelectSeq(groups, LAMBDA g : ~g.skip)

(***************************************************************************)
(* Pre-upload validation.                                                  *)
(***************************************************************************)
\* the filter on the current pay period left out
CurrentPeriodPayroll_AllPeriods(ps, period) == DOMAIN ps

\* ids of the existing payroll records of the current pay period
CurrentPeriodPayroll(ps, period) ==
    {p \in DOMAIN ps : /\ SplitT(ps[p].pay_period_start) = period.start_date
                       /\ SplitT(ps[p].pay_period_end) = period.end_date}

\* two different existing records with the same employee and period
ExistingDuplicate(ps, period) ==
    \E p, q \in CurrentPeriodPayroll(ps, period) :
        p # q /\ ps[p].employee_id = ps[q].employee_id

\* the check of the new groups against employee_period_map left out
AlreadyExists_Unchecked(group, ps, period) == FALSE

\* a group that would create a record although employee_period_map has its key
AlreadyExists(group, ps, period) ==
    /\ group.existing_payroll = NoPayroll
    /\ group.pay_period = period
    /\ \E p \in CurrentPeriodPayroll(ps, period) : ps[p].employee_id = group.employee_pin

\* two creating groups with the same key
NewKeyDuplicate(groups) ==
    \E j, k \in DOMAIN groups :
        /\ j # k
        /\ groups[j].existing_payroll = NoPayroll
        /\ groups[k].existing_payroll = NoPayroll
        /\ groups[j].employee_pin = groups[k].employee_pin
        /\ groups[j].pay_period = groups[k].pay_period

validate_no_duplicate_payroll_per_employee(groups, ps, period) ==
    /\ ~ExistingDuplicate(ps, period)
    /\ \A k \in DOMAIN groups : ~AlreadyExists(groups[k], ps, period)
    /\ ~NewKeyDuplicate(groups)

validate_same_pay_period_for_all(groups) ==
    \A k \in DOMAIN groups : groups[k].pay_period = groups[1].pay_period

\* a timesheet takes part in the comparison when both clock values are
\* present and both normalize
HasClockPair(t) ==
    /\ t.clock_datetime # NoClock
    /\ t.clock_out_datetime # NoClock
    /\ normalize_datetime_for_comparison(t.clock_datetime) # NoneNorm
    /\ normalize_datetime_for_comparison(t.clock_out_datetime) # NoneNorm

\* the key built from the clock-in alone
clock_pair_key_ClockInOnly(t) ==
    <<normalize_datetime_for_comparison(t.clock_datetime), 0>>

clock_pair_key(t) ==
    <<normalize_datetime_for_comparison(t.clock_datetime),
      normalize_datetime_for_comparison(t.clock_out_datetime)>>

\* the detector reporting no duplicate whatever the clock values
validate_no_duplicate_clock_times_Off(ts, ids) == TRUE

validate_no_duplicate_clock_times(ts, ids) ==
    ~\E j, k \in DOMAIN ids :
        /\ j < k
        /\ HasClockPair(ts[ids[j]])
        /\ HasClockPair(ts[ids[k]])
        /\ clock_pair_key(ts[ids[j]]) = clock_pair_key(ts[ids[k]])

\* len(errors): one error for each timesheet whose key is in clock_time_pairs
RECURSIVE ClockErrorsFrom(_, _, _, _)
ClockErrorsFrom(ts, ids, k, clock_time_pairs) ==
    IF k > Len(ids) THEN 0
    ELSE LET t == ts[ids[k]]
         IN IF ~HasClockPair(t) THEN ClockErrorsFrom(ts, ids, k + 1, clock_time_pairs)
            ELSE IF clock_pair_key(t) \in clock_time_pairs
            THEN 1 + ClockErrorsFrom(ts, ids, k + 1, clock_time_pairs)
            ELSE ClockErrorsFrom(ts, ids, k + 1, clock_time_pairs \cup {clock_pair_key(t)})

clock_time_errors(ts, ids) == ClockErrorsFrom(ts, ids, 1, {})

validate_pre_upload(ts, ps, groups, period) ==
    /\ validate_no_duplicate_payroll_per_employee(groups, ps, period)
    /\ validate_same_pay_period_for_all(groups)
    /\ \A k \in DOMAIN groups : validate_no_duplicate_clock_times(ts, groups[k].timesheets)

(***************************************************************************)
(* create_payroll_record / update_payroll_record / verify_post_upload.     *)
(***************************************************************************)
get_employee_pay_rate(emps, employee_id) ==
    IF employee_id \in DOMAIN emps THEN emps[employee_id] ELSE 0

\* the period written on the record is derived from the timesheets' dates
create_payroll_record_PeriodFromDates(ts, ps, emps, employee_pin, timesheet_ids, pay_period) ==
    LET dates == {ts_date(ts[i]) : i \in Range(timesheet_ids)}
        lo == CHOOSE d \in dates : \A e \in dates : d <= e
        hi == CHOOSE d \in dates : \A e \in dates : d >= e
    IN [ts |-> CreatePayrollLinks(ts, ps, Range(timesheet_ids)),
        ps |-> CreatePayrollRow(ps, employee_pin, [start_date |-> lo, end_date |-> hi],
                                get_employee_pay_rate(emps, employee_pin)),
        id |-> Len(ps) + 1,
        mutation |-> TRUE]

create_payroll_record(ts, ps, emps, employee_pin, timesheet_ids, pay_period) ==
    [ts |-> CreatePayrollLinks(ts, ps, Range(timesheet_ids)),
     ps |-> CreatePayrollRow(ps, employee_pin, pay_period,
                             get_employee_pay_rate(emps, employee_pin)),
     id |-> Len(ps) + 1,
     mutation |-> TRUE]

\* ids of new_timesheets that are not yet in the record's relation
new_timesheet_ids(payroll_record, new_timesheets) ==
    {i \in Range(new_timesheets) : i \notin payroll_record.related}

\* updatePayroll sent with the fields createPayroll sends
UpdatePayrollRow_AsCreate(ps, emps, id) ==
    [ps EXCEPT ![id].pay_rate = get_employee_pay_rate(emps, ps[id].employee_id),
               ![id].payment_method = "DIRECT_DEPOSIT",
               ![id].status = "PENDING"]

\* updatePayroll names id and relatedTimesheetsId only: the row keeps its fields
UpdatePayrollRow(ps, emps, id) == ps

\* the mutation sent although there is no new id
update_payroll_record_AlwaysWrites(ts, ps, emps, payroll_record, new_timesheets) ==
    LET new_ids == new_timesheet_ids(payroll_record, new_timesheets)
        all_timesheet_ids == payroll_record.related \cup new_ids
    IN [ts |-> UpdatePayrollLinks(ts, payroll_record.id, all_timesheet_ids),
        ps |-> UpdatePayrollRow(ps, emps, payroll_record.id),
        id |-> payroll_record.id, mutation |-> TRUE]

update_payroll_record(ts, ps, emps, payroll_record, new_timesheets) ==
    LET new_ids == new_timesheet_ids(payroll_record, new_timesheets)
        all_timesheet_ids == payroll_record.related \cup new_ids
    IN IF new_ids = {}
       THEN [ts |-> ts, ps |-> ps, id |-> payroll_record.id, mutation |-> FALSE]
       ELSE [ts |-> UpdatePayrollLinks(ts, payroll_record.id, all_timesheet_ids),
             ps |-> UpdatePayrollRow(ps, emps, payroll_record.id),
             id |-> payroll_record.id, mutation |-> TRUE]

\* extra related ids reported as a warning that does not fail the check
verify_post_upload_ExtraIgnored(ts, ps, pid, expected_employee_id, expected_pay_period, expected_timesheet_ids) ==
    /\ pid \in DOMAIN ps
    /\ ps[pid].employee_id = expected_employee_id
    /\ SplitT(ps[pid].pay_period_start) = expected_pay_period.start_date
    /\ SplitT(ps[pid].pay_period_end) = expected_pay_period.end_date
    /\ Range(expected_timesheet_ids) \subseteq RelatedTimesheets(ts, pid)

verify_post_upload(ts, ps, pid, expected_employee_id, expected_pay_period, expected_timesheet_ids) ==
    /\ pid \in DOMAIN ps
    /\ ps[pid].employee_id = expected_employee_id
    /\ SplitT(ps[pid].pay_period_start) = expected_pay_period.start_date
    /\ SplitT(ps[pid].pay_period_end) = expected_pay_period.end_date
    /\ RelatedTimesheets(ts, pid) = Range(expected_timesheet_ids)

\* mark_timesheets_processed is defined with one parameter and called with two
MarkDefinedParams == 1
MarkCallArgs == 2
MarkRaisesTypeError == MarkCallArgs # MarkDefinedParams

(***************************************************************************)
(* One iteration of the processing loop up to and including the mutation.  *)
(***************************************************************************)
LoopLookup(ts, ps, group) ==
    IF group.existing_payroll # NoPayroll THEN group.existing_payroll
    ELSE find_existing_payroll(ts, ps, group.employee_pin, group.pay_period,
                               Range(group.timesheets))

WriteEffect(ts, ps, emps, group) ==
    LET existing_payroll == LoopLookup(ts, ps, group)
    IN IF existing_payroll # NoPayroll
       THEN update_payroll_record(ts, ps, emps, existing_payroll, group.timesheets)
            @@ [kind |-> "update"]
       ELSE create_payroll_record(ts, ps, emps, group.employee_pin,
                                  group.timesheets, group.pay_period)
            @@ [kind |-> "create"]

(***************************************************************************)
(* The result of one whole run in which no remote call fails.              *)
(***************************************************************************)
RECURSIVE LoopFrom(_, _, _, _, _)
LoopFrom(ts, ps, emps, groups, k) ==
    IF k > Len(groups) THEN <<ts, ps>>
    ELSE LET w == WriteEffect(ts, ps, emps, groups[k])
         IN LoopFrom(w.ts, w.ps, emps, groups, k + 1)

RunResult(ts, ps, emps, now) ==
    LET period == get_current_pay_period(now)
        approved == get_approved_timesheets(ts, period)
        grouped == PreCheck(ts, ps, group_timesheets(ts, approved, period))
        toProcess == groups_to_process(grouped)
    IN IF approved = <<>> \/ toProcess = <<>> THEN <<ts, ps>>
       ELSE IF ~validate_pre_upload(ts, ps, toProcess, period) THEN <<ts, ps>>
       ELSE LoopFrom(ts, ps, emps, grouped, 1)

(***************************************************************************)
(* Records of what a run did, kept for the properties below.               *)
(***************************************************************************)
BlankLog == [outcome |-> "none", clean |-> TRUE, writes |-> 0, written |-> {},
             vfail |-> {}, missed |-> {}, start |-> <<>>, npay0 |-> 0]
BlankPrev == [outcome |-> "none", clean |-> TRUE, writes |-> 0, vfail |-> {}]
NoKill == [set |-> FALSE, ts |-> <<>>, ps |-> <<>>]

Finished(l) == l.outcome \in {"returned", "aborted", "done"}

PrevOf(l) == IF Finished(l)
             THEN [outcome |-> l.outcome, clean |-> l.clean, writes |-> l.writes,
                   vfail |-> l.vfail]
             ELSE BlankPrev

\* pins whose group found no record in the pre-check although one exists
MissedLookups(ps, groups, period) ==
    {groups[k].employee_pin : k \in {j \in DOMAIN groups :
        /\ groups[j].existing_payroll = NoPayroll
        /\ ~groups[j].skip
        /\ \E p \in CurrentPeriodPayroll(ps, period) :
              ps[p].employee_id = groups[j].employee_pin}}

StartLog(groups, period, outcome, clean) ==
    [outcome |-> outcome, clean |-> clean, writes |-> 0, written |-> {},
     vfail |-> {}, missed |-> MissedLookups(payrolls, groups, period),
     start |-> timesheets, npay0 |-> Len(payrolls)]

\* no function of the module is being applied on its own
NoCall == [fn |-> "none"]

(***************************************************************************)
(* Initial state: empty tables, no run in progress.                        *)
(***************************************************************************)
\* no run in progress and nothing recorded
RunInit ==
    /\ pc = "idle"
    /\ current_pay_period = NoPeriod
    /\ grouped_timesheets = <<>>
    /\ idx = 0
    /\ payroll_id = NULL
    /\ created_count = 0
    /\ updated_count = 0
    /\ processed_count = 0
    /\ validation_failures = <<>>
    /\ log = BlankLog
    /\ prev = BlankPrev
    /\ killedFrom = NoKill

PayRates == [p \in Pins |-> IF p = "0002" THEN 15 ELSE 12]

EngineInit ==
    /\ today = StartDay
    /\ timesheets = <<>>
    /\ payrolls = <<>>
    /\ employees = PayRates
    /\ RunInit

Init == EngineInit /\ call = NoCall

ResetRun ==
    /\ current_pay_period' = NoPeriod
    /\ grouped_timesheets' = <<>>
    /\ idx' = 0
    /\ payroll_id' = NULL
    /\ created_count' = 0
    /\ updated_count' = 0
    /\ processed_count' = 0
    /\ validation_failures' = <<>>

ResetHist ==
    /\ log' = BlankLog
    /\ prev' = BlankPrev
    /\ killedFrom' = NoKill

(***************************************************************************)
(* The environment, between runs: the clock-in system adds a timesheet, a  *)
(* manager sets the approval flag, time passes into the next period.       *)
(***************************************************************************)
ClockIn(pin, clock_in) ==
    /\ pc = "idle"
    /\ Len(timesheets) < MaxTs
    /\ timesheets' = Append(timesheets,
          [employee_pin |-> pin, approved |-> "null",
           timesheet_date |-> IsoStartOfDay(today),
           clock_datetime |-> clock_in, clock_out_datetime |-> ClockOut,
           payroll |-> NULL])
    /\ UNCHANGED call
    /\ UNCHANGED <<today, payrolls, employees, pc>>
    /\ ResetRun /\ ResetHist

SetApproved(i, v) ==
    /\ pc = "idle"
    /\ i \in DOMAIN timesheets
    /\ v \in {"b:true", "b:false"}
    /\ Truthy(timesheets[i].approved) # Truthy(v)
    /\ timesheets' = [timesheets EXCEPT ![i].approved = v]
    /\ UNCHANGED call
    /\ UNCHANGED <<today, payrolls, employees, pc>>
    /\ ResetRun /\ ResetHist

AdvanceTime ==
    /\ pc = "idle"
    /\ today < StartDay + 14 * MaxAdvance
    /\ today' = today + 14
    /\ UNCHANGED call
    /\ UNCHANGED <<timesheets, payrolls, employees, pc>>
    /\ ResetRun /\ ResetHist

(***************************************************************************)
(* process_timesheets_to_payroll, up to the processing loop.               *)
(***************************************************************************)
StartHist ==
    /\ prev' = PrevOf(log)
    /\ killedFrom' = IF log.outcome = "killed" THEN killedFrom ELSE NoKill

\* get_all_timesheets or get_all_payroll raises: the run ends with an error
RunFetchFails ==
    /\ pc = "idle"
    /\ ResetRun
    /\ log' = StartLog(<<>>, get_current_pay_period(today), "error", FALSE)
    /\ prev' = BlankPrev
    /\ killedFrom' = NoKill
    /\ UNCHANGED call
    /\ UNCHANGED <<today, timesheets, payrolls, employees, pc>>

\* no approved timesheets, or every group already linked: early return
RunReturnsEarly ==
    LET period == get_current_pay_period(today)
        approved == get_approved_timesheets(timesheets, period)
        grouped == PreCheck(timesheets, payrolls,
                            group_timesheets(timesheets, approved, period))
    IN /\ pc = "idle"
       /\ approved = <<>> \/ groups_to_process(grouped) = <<>>
       /\ current_pay_period' = period
       /\ grouped_timesheets' = grouped
       /\ idx' = 0
       /\ payroll_id' = NULL
       /\ created_count' = 0
       /\ updated_count' = 0
       /\ processed_count' = 0
       /\ validation_failures' = <<>>
       /\ log' = StartLog(grouped, period, "returned", TRUE)
       /\ StartHist
       /\ UNCHANGED call
       /\ UNCHANGED <<today, timesheets, payrolls, employees, pc>>

\* validate_pre_upload reports errors: the run raises before the loop
RunValidationAborts ==
    LET period == get_current_pay_period(today)
        approved == get_approved_timesheets(timesheets, period)
        grouped == PreCheck(timesheets, payrolls,
                            group_timesheets(timesheets, approved, period))
        toProcess == groups_to_process(grouped)
    IN /\ pc = "idle"
       /\ approved # <<>> /\ toProcess # <<>>
       /\ ~validate_pre_upload(timesheets, payrolls, toProcess, period)
       /\ current_pay_period' = period
       /\ grouped_timesheets' = grouped
       /\ idx' = 0
       /\ payroll_id' = NULL
       /\ created_count' = 0
       /\ updated_count' = 0
       /\ processed_count' = 0
       /\ validation_failures' = <<>>
       /\ log' = StartLog(grouped, period, "aborted", TRUE)
       /\ StartHist
       /\ UNCHANGED call
       /\ UNCHANGED <<today, timesheets, payrolls, employees, pc>>

RunEntersLoop ==
    LET period == get_current_pay_period(today)
        approved == get_approved_timesheets(timesheets, period)
        grouped == PreCheck(timesheets, payrolls,
                            group_timesheets(timesheets, approved, period))
        toProcess == groups_to_process(grouped)
    IN /\ pc = "idle"
       /\ approved # <<>> /\ toProcess # <<>>
       /\ validate_pre_upload(timesheets, payrolls, toProcess, period)
       /\ pc' = "write"
       /\ current_pay_period' = period
       /\ grouped_timesheets' = grouped
       /\ idx' = 1
       /\ payroll_id' = NULL
       /\ created_count' = 0
       /\ updated_count' = 0
       /\ processed_count' = 0
       /\ validation_failures' = <<>>
       /\ log' = StartLog(grouped, period, "running", TRUE)
       /\ StartHist
       /\ UNCHANGED call
       /\ UNCHANGED <<today, timesheets, payrolls, employees>>

(***************************************************************************)
(* The processing loop over grouped_timesheets.                            *)
(***************************************************************************)
\* lookup, then createPayroll or updatePayroll
ProcessWrite ==
    /\ pc = "write"
    /\ idx <= Len(grouped_timesheets)
    /\ LET group == grouped_timesheets[idx]
           w == WriteEffect(timesheets, payrolls, employees, group)
       IN /\ timesheets' = w.ts
          /\ payrolls' = w.ps
          /\ payroll_id' = w.id
          /\ created_count' = IF w.kind = "create" THEN created_count + 1 ELSE created_count
          /\ updated_count' = IF w.kind = "update" THEN updated_count + 1 ELSE updated_count
          /\ log' = [log EXCEPT !.writes = IF w.mutation THEN @ + 1 ELSE @,
                                !.written = IF w.mutation THEN @ \cup {group.employee_pin} ELSE @]
    /\ pc' = "verify"
    /\ UNCHANGED call
    /\ UNCHANGED <<today, employees, current_pay_period, grouped_timesheets, idx,
                   processed_count, validation_failures, prev, killedFrom>>

\* the mutation raises: the except branch goes on with the next group
ProcessWriteRaises ==
    /\ pc = "write"
    /\ idx <= Len(grouped_timesheets)
    /\ WriteEffect(timesheets, payrolls, employees, grouped_timesheets[idx]).mutation
    /\ idx' = idx + 1
    /\ log' = [log EXCEPT !.clean = FALSE]
    /\ UNCHANGED call
    /\ UNCHANGED <<today, timesheets, payrolls, employees, pc, current_pay_period,
                   grouped_timesheets, payroll_id, created_count, updated_count,
                   processed_count, validation_failures, prev, killedFrom>>

\* verify_post_upload, then mark_timesheets_processed
ProcessVerify ==
    /\ pc = "verify"
    /\ LET group == grouped_timesheets[idx]
           is_valid == verify_post_upload(timesheets, payrolls, payroll_id,
                          group.employee_pin, group.pay_period, group.timesheets)
       IN /\ validation_failures' =
                IF payroll_id # NULL /\ ~is_valid
                THEN Append(validation_failures,
                            [payroll_id |-> payroll_id, employee_id |-> group.employee_pin])
                ELSE validation_failures
          /\ processed_count' =
                IF (payroll_id = NULL \/ is_valid) /\ ~MarkRaisesTypeError
                THEN processed_count + Len(group.timesheets)
                ELSE processed_count
          /\ log' = IF payroll_id # NULL /\ ~is_valid
                    THEN [log EXCEPT !.vfail = @ \cup {group.employee_pin}]
                    ELSE log
    /\ pc' = "write"
    /\ idx' = idx + 1
    /\ payroll_id' = NULL
    /\ UNCHANGED call
    /\ UNCHANGED <<today, timesheets, payrolls, employees, current_pay_period,
                   grouped_timesheets, created_count, updated_count, prev, killedFrom>>

\* the re-read inside verify_post_upload raises: counted as a failed verification
ProcessVerifyReadFails ==
    /\ pc = "verify"
    /\ payroll_id # NULL
    /\ validation_failures' = Append(validation_failures,
          [payroll_id |-> payroll_id,
           employee_id |-> grouped_timesheets[idx].employee_pin])
    /\ log' = [log EXCEPT !.vfail = @ \cup {grouped_timesheets[idx].employee_pin},
                          !.clean = FALSE]
    /\ pc' = "write"
    /\ idx' = idx + 1
    /\ payroll_id' = NULL
    /\ UNCHANGED call
    /\ UNCHANGED <<today, timesheets, payrolls, employees, current_pay_period,
                   grouped_timesheets, created_count, updated_count, processed_count,
                   prev, killedFrom>>

\* the loop left after its first iteration
FinishRun_AfterFirstGroup ==
    /\ pc = "write"
    /\ idx > 1
    /\ pc' = "idle"
    /\ log' = [log EXCEPT !.outcome = "done"]
    /\ UNCHANGED call
    /\ UNCHANGED <<today, timesheets, payrolls, employees, current_pay_period,
                   grouped_timesheets, idx, payroll_id, created_count, updated_count,
                   processed_count, validation_failures, prev, killedFrom>>

\* the summary after the loop
FinishRun ==
    /\ pc = "write"
    /\ idx > Len(grouped_timesheets)
    /\ pc' = "idle"
    /\ log' = [log EXCEPT !.outcome = "done"]
    /\ UNCHANGED call
    /\ UNCHANGED <<today, timesheets, payrolls, employees, current_pay_period,
                   grouped_timesheets, idx, payroll_id, created_count, updated_count,
                   processed_count, validation_failures, prev, killedFrom>>

\* the process is killed between two remote calls
Kill ==
    /\ pc # "idle"
    /\ pc' = "idle"
    /\ log' = [log EXCEPT !.outcome = "killed"]
    /\ killedFrom' = IF ~log.clean THEN NoKill
                     ELSE IF killedFrom.set THEN killedFrom
                     ELSE [set |-> TRUE, ts |-> log.start,
                           ps |-> SubSeq(payrolls, 1, log.npay0)]
    /\ UNCHANGED call
    /\ UNCHANGED <<today, timesheets, payrolls, employees, current_pay_period,
                   grouped_timesheets, idx, payroll_id, created_count, updated_count,
                   processed_count, validation_failures, prev>>

Next ==
    \/ \E pin \in Pins, c \in ClockIns : ClockIn(pin, c)
    \/ \E i \in 1..MaxTs, v \in ApprovedRaw : SetApproved(i, v)
    \/ AdvanceTime
    \/ RunFetchFails
    \/ RunReturnsEarly
    \/ RunValidationAborts
    \/ RunEntersLoop
    \/ ProcessWrite
    \/ ProcessWriteRaises
    \/ ProcessVerify
    \/ ProcessVerifyReadFails
    \/ FinishRun
    \/ Kill

Spec == Init /\ [][Next]_vars

(***************************************************************************)
(* The calendar functions applied on their own to any datetime or date.    *)
(***************************************************************************)
MaxDay == 30
Days == (0 - MaxDay)..MaxDay
Hours == {0, 3, 4, 23}
Zones == {"naive", "pr", "utc"}

PeriodCall(dt) == [fn |-> "period", arg |-> dt, out |-> NoPeriod, done |-> FALSE]
PaymentCall(e) == [fn |-> "payment", arg |-> e, out |-> e, done |-> FALSE]

InitCalendar ==
    /\ EngineInit
    /\ call \in {PeriodCall(DateTime(d, h, z)) : d \in Days, h \in Hours, z \in Zones}
               \cup {PaymentCall(e) : e \in Days}

ApplyPeriod ==
    /\ call.fn = "period" /\ ~call.done
    /\ call' = [call EXCEPT !.out = calculate_biweekly_pay_period(call.arg),
                            !.done = TRUE]
    /\ UNCHANGED <<store, runv, hist>>

ApplyPayment ==
    /\ call.fn = "payment" /\ ~call.done
    /\ call' = [call EXCEPT !.out = calculate_payment_date(call.arg), !.done = TRUE]
    /\ UNCHANGED <<store, runv, hist>>

NextCalendar == ApplyPeriod \/ ApplyPayment

SpecCalendar == InitCalendar /\ [][NextCalendar]_vars

(***************************************************************************)
(* Properties.                                                             *)
(***************************************************************************)
\* the last run has ended by itself and no remote call of it failed; the
\* data has not changed since (a change resets the log)
AfterCleanRun == pc = "idle" /\ Finished(log) /\ log.clean

\* the payroll table as it was when the last run started
PayrollsAtStart == SubSeq(payrolls, 1, log.npay0)

\* ids that qualified for employee pin when the last run started
QualifyingAtStart(pin) ==
    {i \in DOMAIN log.start :
        /\ log.start[i].employee_pin = pin
        /\ IsQualifying(log.start[i], get_current_pay_period(today))}

SamePeriod(a, b) ==
    /\ SplitT(a.pay_period_start) = SplitT(b.pay_period_start)
    /\ SplitT(a.pay_period_end) = SplitT(b.pay_period_end)

\* C1: uniqueness across runs -- no two payroll records have the same
\* employee identifier and the same pay period.
C1_Uniqueness ==
    \A p, q \in DOMAIN payrolls :
        p # q => ~(payrolls[p].employee_id = payrolls[q].employee_id
                   /\ SamePeriod(payrolls[p], payrolls[q]))

\* several runs have created records: one employee has records of two periods
C1_Witness ==
    \E p, q \in DOMAIN payrolls :
        /\ p # q
        /\ payrolls[p].employee_id = payrolls[q].employee_id
        /\ ~SamePeriod(payrolls[p], payrolls[q])

C3_RevocationPropagates ==
    AfterCleanRun =>
        \A i \in DOMAIN log.start :
            LET p == log.start[i].payroll
            IN (p \in CurrentPeriodPayroll(PayrollsAtStart, get_current_pay_period(today)))
               => /\ ~Truthy(timesheets[i].approved) => timesheets[i].payroll = NULL
                  /\ Truthy(timesheets[i].approved) => timesheets[i].payroll = p

\* C4: after a run, an employee who had qualifying timesheets (no duplicate
\* clock pair among them) and no payroll record for the canonical period has
\* exactly one such record, related to exactly those timesheets.
C4_CreationScenario ==
    AfterCleanRun =>
        \A pin \in Pins :
            LET period == get_current_pay_period(today)
                Q == QualifyingAtStart(pin)
                mine == {p \in CurrentPeriodPayroll(payrolls, period) :
                            payrolls[p].employee_id = pin}
            IN (/\ Q # {}
                /\ \A i, j \in Q : i # j => log.start[i].clock_datetime # log.start[j].clock_datetime
                /\ ~\E p \in CurrentPeriodPayroll(PayrollsAtStart, period) :
                       payrolls[p].employee_id = pin)
               => /\ Cardinality(mine) = 1
                  /\ \A p \in mine : RelatedTimesheets(timesheets, p) = Q

\* C5: a group whose employee has a payroll record for the canonical period
\* finds that record in the lookup.
C5_LookupFindsRecord == log.missed = {}

\* C6: after a run, the relation set of a record of the canonical period is
\* the previously linked ids still approved and in the period, together with
\* the ids that qualified for the employee in this run.
C6_TargetSet ==
    AfterCleanRun =>
        \A p \in CurrentPeriodPayroll(PayrollsAtStart, get_current_pay_period(today)) :
            RelatedTimesheets(timesheets, p) =
                {i \in RelatedTimesheets(log.start, p) :
                    /\ Truthy(log.start[i].approved)
                    /\ InPeriod(log.start[i], get_current_pay_period(today))}
                \cup QualifyingAtStart(payrolls[p].employee_id)

\* a group that passes the pre-upload checks when taken alone
GroupItselfValid(group) ==
    /\ validate_no_duplicate_clock_times(log.start, group.timesheets)
    /\ ~AlreadyExists(group, PayrollsAtStart, group.pay_period)

\* C7: every group of a run that is itself valid is created or updated in
\* that run, whatever happens to the other groups.
C7_GroupIsolation ==
    AfterCleanRun =>
        \A k \in DOMAIN grouped_timesheets :
            GroupItselfValid(grouped_timesheets[k])
                => grouped_timesheets[k].employee_pin \in log.written

\* two timesheets of the group with both clock values present and the same
\* (clock-in, clock-out) pair
SharesClockPair(ts, group) ==
    \E j, k \in DOMAIN group.timesheets :
        /\ j # k
        /\ ts[group.timesheets[j]].clock_datetime # NoClock
        /\ ts[group.timesheets[j]].clock_out_datetime # NoClock
        /\ ts[group.timesheets[j]].clock_datetime = ts[group.timesheets[k]].clock_datetime
        /\ ts[group.timesheets[j]].clock_out_datetime = ts[group.timesheets[k]].clock_out_datetime

\* C8: a group with two timesheets sharing a clock pair gets no write: no
\* mutation is sent for it, its timesheets are as they were at the start of
\* the run and no record has been added for its employee.
C8_FailClosed ==
    \A k \in DOMAIN grouped_timesheets :
        LET group == grouped_timesheets[k]
        IN SharesClockPair(log.start, group)
           => /\ group.employee_pin \notin log.written
              /\ \A i \in Range(group.timesheets) : timesheets[i] = log.start[i]
              /\ \A p \in DOMAIN payrolls :
                    p > log.npay0 => payrolls[p].employee_id # group.employee_pin

\* a run has ended on a group with a shared clock pair, next to another group
C8_Witness ==
    /\ pc = "idle" /\ log.outcome = "aborted"
    /\ Len(grouped_timesheets) >= 2
    /\ \E k \in DOMAIN grouped_timesheets : SharesClockPair(log.start, grouped_timesheets[k])

\* C9: the employees whose verification failed in a run have their
\* timesheets grouped again by the following run.
C9_RetryAfterVerificationFailure ==
    (Finished(prev) /\ AfterCleanRun) =>
        \A pin \in prev.vfail :
            \E k \in DOMAIN grouped_timesheets : grouped_timesheets[k].employee_pin = pin

ApprovedRawAll == ApprovedRaw \cup {"s:", "s:true", "s:True", "s:False"}
FilterDays == {StartDay, StartDay - 14}

FetchedTimesheet(pin, raw, d) ==
    [employee_pin |-> pin, approved |-> raw, timesheet_date |-> IsoStartOfDay(d),
     clock_datetime |-> [fmt |-> "Z", t |-> 8], clock_out_datetime |-> ClockOut,
     payroll |-> NULL]

FetchedRows == {FetchedTimesheet(pin, raw, d) :
                    pin \in Pins, raw \in ApprovedRawAll, d \in FilterDays}

InitApproval ==
    /\ today = StartDay
    /\ timesheets \in {<<a>> : a \in FetchedRows}
                     \cup {<<a, b>> : a \in FetchedRows, b \in FetchedRows}
    /\ payrolls = <<>>
    /\ employees = PayRates
    /\ RunInit
    /\ call = [fn |-> "filter", out |-> <<>>, done |-> FALSE]

ApplyFilter ==
    /\ call.fn = "filter" /\ ~call.done
    /\ call' = [call EXCEPT
                    !.out = get_approved_timesheets(timesheets, get_current_pay_period(today)),
                    !.done = TRUE]
    /\ UNCHANGED <<store, runv, hist>>

NextApproval == ApplyFilter

SpecApproval == InitApproval /\ [][NextApproval]_vars

(***************************************************************************)
(* Tables as a loop iteration can find them: up to two payroll records of  *)
(* different (employee, period) and three timesheets, each unlinked or     *)
(* linked to the record of its employee.                                   *)
(***************************************************************************)
Period0 == calculate_biweekly_pay_period(DateTime(StartDay, 0, "pr"))
Period1 == calculate_biweekly_pay_period(DateTime(StartDay + 14, 0, "pr"))

PayrollRows ==
    {[employee_id |-> pin,
      pay_period_start |-> IsoStartOfDay(period.start_date),
      pay_period_end |-> IsoStartOfDay(period.end_date),
      pay_rate |-> PayRates[pin],
      payment_method |-> "DIRECT_DEPOSIT",
      status |-> "PAID"] : pin \in Pins, period \in {Period0, Period1}}

PayrollTables ==
    {<<a>> : a \in PayrollRows}
    \cup {y \in PayrollRows \X PayrollRows : y[1] # y[2]}

\* a timesheet of the current period, unlinked or linked to a record of its
\* employee and period
LinkedRows(ps, raws) ==
    {[FetchedTimesheet(x[1], x[2], StartDay) EXCEPT !.payroll = x[3]] :
        x \in {y \in Pins \X raws \X ({NULL} \cup DOMAIN ps) :
                  y[3] # NULL => /\ ps[y[3]].employee_id = y[1]
                                 /\ SplitT(ps[y[3]].pay_period_start) = Period0.start_date}}

LinkedTables(ps, raws) ==
    {<<a, b, c>> : a \in LinkedRows(ps, raws), b \in LinkedRows(ps, raws),
                   c \in LinkedRows(ps, raws)}

(***************************************************************************)
(* verify_post_upload applied to any payroll id, employee, period and      *)
(* expected ids.                                                           *)
(***************************************************************************)
ExpectedIds == {<<1>>, <<3>>, <<1, 2>>, <<2, 3>>}

VerifyCall(pid, pin, period, ids) ==
    [fn |-> "verify", payroll_id |-> pid, expected_employee_id |-> pin,
     expected_pay_period |-> period, expected_timesheet_ids |-> ids,
     read_error |-> FALSE, out |-> FALSE, done |-> FALSE]

InitVerify ==
    /\ today = StartDay
    /\ payrolls \in PayrollTables
    /\ timesheets \in LinkedTables(payrolls, {"b:true"})
    /\ employees = PayRates
    /\ RunInit
    /\ call \in {VerifyCall(pid, pin, period, ids) :
                    pid \in 1..3, pin \in Pins, period \in {Period0, Period1},
                    ids \in ExpectedIds}

ApplyVerify ==
    /\ call.fn = "verify" /\ ~call.done
    /\ call' = [call EXCEPT
                    !.out = verify_post_upload(timesheets, payrolls, call.payroll_id,
                                call.expected_employee_id, call.expected_pay_period,
                                call.expected_timesheet_ids),
                    !.done = TRUE]
    /\ UNCHANGED <<store, runv, hist>>

\* the re-read raises: the error is appended and the result is False
ApplyVerifyReadFails ==
    /\ call.fn = "verify" /\ ~call.done
    /\ call' = [call EXCEPT !.read_error = TRUE, !.out = FALSE, !.done = TRUE]
    /\ UNCHANGED <<store, runv, hist>>

NextVerify == ApplyVerify \/ ApplyVerifyReadFails

SpecVerify == InitVerify /\ [][NextVerify]_vars

(***************************************************************************)
(* The update branch of a loop iteration: a group of the canonical period  *)
(* for which the lookup finds a record, as after a link made since the     *)
(* run's fetch.                                                            *)
(***************************************************************************)
\* the employee's pay rate as at creation, or raised since
RateTables == {PayRates, [p \in Pins |-> PayRates[p] + 3]}

\* the groups the run can have built from approved timesheets of one employee
FetchedGroups(ts) ==
    {[NewGroup(y[1], Period0) EXCEPT !.timesheets = y[2]] :
        y \in {x \in Pins \X {<<1>>, <<2>>, <<3>>, <<1, 2>>} :
                  \A k \in DOMAIN x[2] : /\ ts[x[2][k]].employee_pin = x[1]
                                          /\ Truthy(ts[x[2][k]].approved)}}

UpdateCall(group) ==
    [fn |-> "update", group |-> group, record |-> NoPayroll, writes |-> <<>>,
     before_ts |-> <<>>, before_ps |-> <<>>, done |-> FALSE,
     verified |-> FALSE, is_valid |-> FALSE]

InitUpdate ==
    /\ today = StartDay
    /\ payrolls \in PayrollTables
    /\ timesheets \in LinkedTables(payrolls, {"b:true", "b:false"})
    /\ employees \in RateTables
    /\ RunInit
    /\ call \in {UpdateCall(PreCheckGroup(timesheets, payrolls, g)) :
                    g \in FetchedGroups(timesheets)}
    /\ LoopLookup(timesheets, payrolls, call.group) # NoPayroll

ApplyUpdate ==
    /\ call.fn = "update" /\ ~call.done
    /\ LET existing_payroll == LoopLookup(timesheets, payrolls, call.group)
           w == update_payroll_record(timesheets, payrolls, employees,
                                      existing_payroll, call.group.timesheets)
       IN /\ timesheets' = w.ts
          /\ payrolls' = w.ps
          /\ call' = [call EXCEPT
                          !.record = existing_payroll,
                          !.writes = IF w.mutation
                                     THEN <<[op |-> "updatePayroll", id |-> w.id]>>
                                     ELSE <<>>,
                          !.before_ts = timesheets,
                          !.before_ps = payrolls,
                          !.done = TRUE]
    /\ updated_count' = updated_count + 1
    /\ UNCHANGED <<today, employees, pc, current_pay_period, grouped_timesheets, idx,
                   payroll_id, created_count, processed_count, validation_failures,
                   hist>>

\* the verification the loop makes after the update, with the group's ids
ApplyUpdateVerify ==
    /\ call.fn = "update" /\ call.done /\ ~call.verified
    /\ call' = [call EXCEPT
                    !.is_valid = verify_post_upload(timesheets, payrolls, call.record.id,
                                     call.group.employee_pin, call.group.pay_period,
                                     call.group.timesheets),
                    !.verified = TRUE]
    /\ UNCHANGED <<store, runv, hist>>

NextUpdate == ApplyUpdate \/ ApplyUpdateVerify

SpecUpdate == InitUpdate /\ [][NextUpdate]_vars

\* the calendar date, in Puerto Rico, of the datetime a period call was given
PrLocalDay(dt) == IF dt.tz = "utc" THEN (dt.day * 24 + dt.hour - 4) \div 24 ELSE dt.day

PeriodDone == call.fn = "period" /\ call.done
PaymentDone == call.fn = "payment" /\ call.done

\* C11: with R the reference Monday (day 0), the period of R and of R+13 is
\* {R, R+13}, the period of R+14 is {R+14, R+27} and the period of R-1 is
\* {R-14, R-1}.
C11_ReferencePoints ==
    PeriodDone =>
        LET D == PrLocalDay(call.arg)
        IN /\ D \in {0, 13} => call.out = [start_date |-> 0, end_date |-> 13]
           /\ D = 14 => call.out = [start_date |-> 14, end_date |-> 27]
           /\ D = 0 - 1 => call.out = [start_date |-> 0 - 14, end_date |-> 0 - 1]

\* the period of the day before the reference Monday has been computed
C11_Witness == PeriodDone /\ PrLocalDay(call.arg) = 0 - 1 /\ call.out.end_date = 0 - 1

\* C12: for every date D the period has start <= D <= end, end = start + 13
\* and start a multiple of 14 days from the reference Monday.
C12_Partition ==
    PeriodDone =>
        LET D == PrLocalDay(call.arg)
        IN /\ call.out.start_date <= D /\ D <= call.out.end_date
           /\ call.out.end_date = call.out.start_date + 13
           /\ \E n \in (0 - MaxDay)..MaxDay : call.out.start_date = 14 * n

\* a date more than one period before the reference Monday has been computed
C12_Witness == PeriodDone /\ PrLocalDay(call.arg) = 0 - 15 /\ call.out.start_date = 0 - 28

\* C13: the payment date is a Monday, later than the period end E, at most
\* 7 days after it, and E + 7 when E is a Monday.
C13_PaymentDate ==
    PaymentDone =>
        /\ \E n \in (0 - MaxDay)..MaxDay : call.out = 7 * n
        /\ call.out > call.arg
        /\ call.out <= call.arg + 7
        /\ (\E n \in (0 - MaxDay)..MaxDay : call.arg = 7 * n) => call.out = call.arg + 7

\* the payment date of a period end that is a Monday has been computed
C13_Witness == PaymentDone /\ call.arg = 0 - 14 /\ call.out = 0 - 7

\* raw values that are the boolean true or the string "true" in any case
TrueLiterals == {"b:true", "s:true", "s:True"}

\* C14: a timesheet is selected only when its raw approved value is the
\* boolean true or a string equal to "true" ignoring case; with false, null,
\* the empty string or the string "False" it is never selected.
C14_ApprovalPredicate ==
    (call.fn = "filter" /\ call.done) =>
        \A i \in Range(call.out) : timesheets[i].approved \in TrueLiterals

\* ids whose back-reference was written by the last run
LinkedByRun ==
    {i \in DOMAIN log.start : timesheets[i].payroll # log.start[i].payroll}

C17_OrphanPass ==
    AfterCleanRun =>
        \A p \in CurrentPeriodPayroll(PayrollsAtStart, get_current_pay_period(today)) :
            QualifyingAtStart(payrolls[p].employee_id) = {}
                => \A i \in RelatedTimesheets(timesheets, p) :
                       timesheets[i].approved \in TrueLiterals

VerifyDone == call.fn = "verify" /\ call.done
UpdateDone == call.fn = "update" /\ call.done

\* related ids of the payroll the verification was asked about
ActualIds == {i \in DOMAIN timesheets : timesheets[i].payroll = call.payroll_id}

\* C16: verification succeeds exactly when the re-read succeeds, the store
\* has the payroll id, its employee and its period start and end are the
\* expected ones, and its related ids are the expected ids, none missing and
\* none extra.
C16_VerificationResult ==
    VerifyDone =>
        (call.out <=>
            /\ ~call.read_error
            /\ call.payroll_id \in DOMAIN payrolls
            /\ payrolls[call.payroll_id].employee_id = call.expected_employee_id
            /\ payrolls[call.payroll_id].pay_period_start.date
                   = call.expected_pay_period.start_date
            /\ payrolls[call.payroll_id].pay_period_end.date
                   = call.expected_pay_period.end_date
            /\ Range(call.expected_timesheet_ids) \ ActualIds = {}
            /\ ActualIds \ Range(call.expected_timesheet_ids) = {})

\* a verification has failed for no other reason than an extra related id
C16_Witness ==
    /\ VerifyDone /\ ~call.out /\ ~call.read_error
    /\ call.payroll_id \in DOMAIN payrolls
    /\ payrolls[call.payroll_id].employee_id = call.expected_employee_id
    /\ payrolls[call.payroll_id].pay_period_start.date = call.expected_pay_period.start_date
    /\ payrolls[call.payroll_id].pay_period_end.date = call.expected_pay_period.end_date
    /\ Range(call.expected_timesheet_ids) \subseteq ActualIds
    /\ ActualIds # Range(call.expected_timesheet_ids)

\* ids of the record's relation set that the update is to remove: their
\* timesheet is no longer approved
ToRemove == {i \in call.record.related : call.before_ts[i].approved \notin TrueLiterals}

C19_NoOpPersist ==
    UpdateDone =>
        (call.record.related \cup Range(call.group.timesheets) = call.record.related
            => /\ call.writes = <<>>
               /\ timesheets = call.before_ts
               /\ payrolls = call.before_ps)

\* an update was applied for a group whose ids are all in the record already
C19_Witness ==
    /\ UpdateDone
    /\ call.group.timesheets # <<>>
    /\ Range(call.group.timesheets) \subseteq call.record.related
    /\ call.writes = <<>>

C21_NoDeletion ==
    [][\A p \in DOMAIN payrolls :
          /\ p \in DOMAIN payrolls'
          /\ payrolls'[p].employee_id = payrolls[p].employee_id
          /\ SamePeriod(payrolls'[p], payrolls[p])]_vars

\* a run that started with a record in the table has created another one
C21_Witness ==
    /\ pc = "idle"
    /\ log.outcome = "done"
    /\ log.npay0 >= 1
    /\ Len(payrolls) > log.npay0


\* records created by the last run
CreatedByRun == (log.npay0 + 1)..Len(payrolls)

\* C22: canonical period on groups and records -- every group of a run
\* carries the period the calculator gives for the day of the run, the
\* same-period validation accepts the run's groups, and every record the run
\* creates has that period's start and end.
C22_CanonicalPeriod ==
    log.outcome \in {"running", "returned", "aborted", "done"} =>
        LET canon == get_current_pay_period(today)
        IN /\ current_pay_period = canon
           /\ \A k \in DOMAIN grouped_timesheets :
                  grouped_timesheets[k].pay_period = canon
           /\ validate_same_pay_period_for_all(grouped_timesheets)
           /\ \A p \in CreatedByRun :
                  /\ SplitT(payrolls[p].pay_period_start) = canon.start_date
                  /\ SplitT(payrolls[p].pay_period_end) = canon.end_date

\* a run with two groups created a record whose timesheet is dated inside
\* the period, not on its first or last day
C22_Witness ==
    /\ log.outcome = "done"
    /\ Len(grouped_timesheets) = 2
    /\ \E p \in CreatedByRun : \E i \in DOMAIN timesheets :
           /\ timesheets[i].payroll = p
           /\ ts_date(timesheets[i]) # SplitT(payrolls[p].pay_period_start)
           /\ ts_date(timesheets[i]) # SplitT(payrolls[p].pay_period_end)


(***************************************************************************)
(* validate_no_duplicate_payroll_per_employee applied on its own: payroll  *)
(* tables of up to three records, which may repeat an (employee, period),  *)
(* and one or two groups that create or update.                            *)
(***************************************************************************)
DetectorTables ==
    {<<>>} \cup {<<a>> : a \in PayrollRows}
    \cup (PayrollRows \X PayrollRows)
    \cup (PayrollRows \X PayrollRows \X PayrollRows)

\* a group as the pre-check leaves it: creating, or updating a record found
DetectorGroups ==
    {[NewGroup(pin, period) EXCEPT !.timesheets = <<1>>, !.existing_payroll = e] :
        pin \in Pins, period \in {Period0, Period1},
        e \in {NoPayroll, [id |-> 1, related |-> {2}]}}

DetectorCall(groups) ==
    [fn |-> "detector", groups |-> groups, period |-> Period0,
     is_valid |-> FALSE, done |-> FALSE]

InitDetector ==
    /\ today = StartDay
    /\ payrolls \in DetectorTables
    /\ timesheets = <<>>
    /\ employees = PayRates
    /\ RunInit
    /\ call \in {DetectorCall(g) :
                    g \in {<<a>> : a \in DetectorGroups}
                          \cup (DetectorGroups \X DetectorGroups)}

ApplyDetector ==
    /\ call.fn = "detector" /\ ~call.done
    /\ call' = [call EXCEPT
                    !.is_valid = validate_no_duplicate_payroll_per_employee(
                                     call.groups, payrolls, call.period),
                    !.done = TRUE]
    /\ UNCHANGED <<store, runv, hist>>

NextDetector == ApplyDetector

SpecDetector == InitDetector /\ [][NextDetector]_vars

DetectorDone == call.fn = "detector" /\ call.done

\* record p of the drawn table belongs to employee pin and the call's period
RecordOf(p, pin) ==
    /\ payrolls[p].employee_id = pin
    /\ payrolls[p].pay_period_start.date = call.period.start_date
    /\ payrolls[p].pay_period_end.date = call.period.end_date

Creates(g) == g.existing_payroll = NoPayroll

\* C23: duplicate-payroll detector -- the validation fails exactly when two
\* distinct records of the period have the same employee, or a creating
\* group's employee already has a record of the period, or two creating
\* groups have the same employee and period; records of other periods do
\* not matter.
C23_Detector ==
    DetectorDone =>
        (call.is_valid <=>
            ~(\/ \E p, q \in DOMAIN payrolls : \E pin \in Pins :
                     p < q /\ RecordOf(p, pin) /\ RecordOf(q, pin)
              \/ \E k \in DOMAIN call.groups : \E p \in DOMAIN payrolls :
                     /\ Creates(call.groups[k])
                     /\ call.groups[k].pay_period = call.period
                     /\ RecordOf(p, call.groups[k].employee_pin)
              \/ \E j, k \in DOMAIN call.groups :
                     /\ j < k
                     /\ Creates(call.groups[j]) /\ Creates(call.groups[k])
                     /\ call.groups[j].employee_pin = call.groups[k].employee_pin
                     /\ call.groups[j].pay_period = call.groups[k].pay_period))

\* accepted although one employee has two records of another period and a
\* creating group in the current one
C23_Witness ==
    /\ DetectorDone
    /\ call.is_valid
    /\ \E p, q \in DOMAIN payrolls :
           /\ p < q
           /\ payrolls[p] = payrolls[q]
           /\ payrolls[p].pay_period_start.date = Period1.start_date
           /\ \E k \in DOMAIN call.groups :
                  /\ Creates(call.groups[k])
                  /\ call.groups[k].pay_period = call.period
                  /\ call.groups[k].employee_pin = payrolls[p].employee_id


\* C24: leading zeros are significant -- a group holds only timesheets whose
\* identifier is the group's string, a group's existing record and every
\* record a timesheet is linked to carry exactly the timesheet's identifier,
\* and a record created by the run carries the string of one of its groups.
C24_LeadingZeros ==
    /\ \A k \in DOMAIN grouped_timesheets :
          LET group == grouped_timesheets[k]
          IN /\ \A i \in Range(group.timesheets) :
                    timesheets[i].employee_pin = group.employee_pin
             /\ group.existing_payroll # NoPayroll =>
                    payrolls[group.existing_payroll.id].employee_id = group.employee_pin
             /\ \A j \in DOMAIN grouped_timesheets :
                    j # k => grouped_timesheets[j].employee_pin # group.employee_pin
    /\ \A i \in DOMAIN timesheets :
          timesheets[i].payroll # NULL =>
              payrolls[timesheets[i].payroll].employee_id = timesheets[i].employee_pin
    /\ log.outcome \in {"running", "done"} =>
          \A p \in CreatedByRun : \E k \in DOMAIN grouped_timesheets :
              /\ payrolls[p].employee_id = grouped_timesheets[k].employee_pin
              /\ \A i \in DOMAIN timesheets :
                     timesheets[i].payroll = p =>
                         i \in Range(grouped_timesheets[k].timesheets)

\* one run created a record for "0002" and another for "2"
C24_Witness ==
    /\ log.outcome = "done"
    /\ \E p, q \in CreatedByRun :
           /\ payrolls[p].employee_id = "0002"
           /\ payrolls[q].employee_id = "2"
           /\ \E i, j \in DOMAIN timesheets :
                  timesheets[i].payroll = p /\ timesheets[j].payroll = q


\* groups of the finished run that were to be written and were not, or whose
\* verification failed
FailedGroups ==
    {k \in DOMAIN grouped_timesheets :
        /\ ~grouped_timesheets[k].skip
        /\ \/ grouped_timesheets[k].employee_pin \notin log.written
           \/ grouped_timesheets[k].employee_pin \in log.vfail}

\* C25: failure accounting -- when a run has gone through its loop, every
\* group whose create or update raised or whose verification failed has an
\* entry in validation_failures, the list printed at the end of the run.
C25_FailureAccounting ==
    (pc = "idle" /\ log.outcome = "done") =>
        \A k \in FailedGroups :
            \E n \in DOMAIN validation_failures :
                validation_failures[n].employee_id = grouped_timesheets[k].employee_pin


(***************************************************************************)
(* run_graphql_query: one top-level call, its recursive retries and the    *)
(* answers of the API.                                                     *)
(***************************************************************************)
MAX_RETRIES == 3
RETRY_DELAY == 2

\* the same wait before every retry
wait_time_Fixed(retry_count) == RETRY_DELAY

\* seconds slept before the retry that follows invocation number retry_count
wait_time(retry_count) == RETRY_DELAY * (retry_count + 1)

Http(code, errors) == [kind |-> "http", status_code |-> code, errors |-> errors]

\* what session.post returns: a status code and, for 200, a body with or
\* without "errors"
Responses ==
    {Http(200, FALSE), Http(200, TRUE), Http(401, FALSE), Http(404, FALSE),
     Http(429, FALSE), Http(500, FALSE), Http(503, FALSE)}

\* what session.post raises
RequestExceptions ==
    {[kind |-> "Timeout", status_code |-> 0, errors |-> FALSE],
     [kind |-> "ConnectionError", status_code |-> 0, errors |-> FALSE]}

\* a 401 is handled like a server error
on_response_Retry401(retry_count, r) ==
    IF r.kind = "http" /\ r.status_code = 200 /\ ~r.errors THEN "return"
    ELSE IF r.kind = "http" /\ r.status_code \in {200, 404} THEN "raise"
    ELSE IF retry_count < MAX_RETRIES THEN "retry" ELSE "raise"

\* the test of retry_count against MAX_RETRIES left out
on_response_Uncapped(retry_count, r) ==
    IF r.kind = "http" /\ r.status_code = 200 /\ ~r.errors THEN "return"
    ELSE IF r.kind = "http" /\ r.status_code \in {200, 401, 404} THEN "raise"
    ELSE "retry"

\* the branches of one invocation, in the order of the code
on_response(retry_count, r) ==
    IF r.kind \in {"Timeout", "ConnectionError"}
    THEN IF retry_count < MAX_RETRIES THEN "retry" ELSE "raise"
    ELSE IF r.status_code = 429
    THEN IF retry_count < MAX_RETRIES THEN "retry" ELSE "raise"
    ELSE IF r.status_code >= 500
    THEN IF retry_count < MAX_RETRIES THEN "retry" ELSE "raise"
    ELSE IF r.status_code = 401 THEN "raise"
    ELSE IF r.status_code # 200 THEN "raise"
    ELSE IF r.errors THEN "raise"
    ELSE "return"

GraphqlCall ==
    [fn |-> "graphql", retry_count |-> 0, requests |-> 0, responses |-> <<>>,
     waits |-> <<>>, status |-> "running"]

InitRetry ==
    /\ today = StartDay
    /\ payrolls = <<>>
    /\ timesheets = <<>>
    /\ employees = PayRates
    /\ RunInit
    /\ call = GraphqlCall

\* one invocation: the request is sent and r comes back
Invocation(r) ==
    /\ call.fn = "graphql" /\ call.status = "running"
    /\ LET branch == on_response(call.retry_count, r)
       IN call' = [call EXCEPT
                      !.requests = @ + 1,
                      !.responses = Append(@, r),
                      !.retry_count = IF branch = "retry" THEN @ + 1 ELSE @,
                      !.waits = IF branch = "retry"
                                THEN Append(@, wait_time(call.retry_count)) ELSE @,
                      !.status = CASE branch = "retry" -> "running"
                                   [] branch = "return" -> "returned"
                                   [] OTHER -> "raised"]
    /\ UNCHANGED <<store, runv, hist>>

RequestAnswered == \E r \in Responses : Invocation(r)

RequestFails == \E r \in RequestExceptions : Invocation(r)

NextRetry == RequestAnswered \/ RequestFails

\* session.post has a timeout of 30 seconds: every request ends
SpecRetry == InitRetry /\ [][NextRetry]_vars /\ WF_vars(NextRetry)

\* C26: authentication failure is fatal -- a 401 response is the last one of
\* the call, and the call has raised.
C26_AuthFatal ==
    call.fn = "graphql" =>
        \A n \in DOMAIN call.responses :
            call.responses[n].status_code = 401 =>
                /\ n = Len(call.responses)
                /\ n = call.requests
                /\ call.status = "raised"

\* a 401 that came after two retried requests
C26_Witness ==
    /\ call.fn = "graphql"
    /\ call.requests = 3
    /\ call.responses[1].status_code = 429
    /\ call.responses[2].kind = "Timeout"
    /\ call.responses[3].status_code = 401
    /\ call.status = "raised"

\* C27: bounded retry -- a call sends at most MAX_RETRIES + 1 requests, has
\* returned or raised once it has sent that many, and always ends.
C27_BoundedRetry ==
    /\ [](call.fn = "graphql" =>
             /\ call.requests <= MAX_RETRIES + 1
             /\ call.requests = MAX_RETRIES + 1 => call.status # "running")
    /\ <>(call.fn = "graphql" /\ call.status \in {"returned", "raised"})

\* timeout, connection error, 429 and 503 in turn: the fourth request is
\* the last and the call raises
C27_Witness ==
    /\ call.fn = "graphql"
    /\ call.requests = MAX_RETRIES + 1
    /\ call.responses[1].kind = "Timeout"
    /\ call.responses[2].kind = "ConnectionError"
    /\ call.responses[3].status_code = 429
    /\ call.responses[4].status_code = 503
    /\ call.status = "raised"


(***************************************************************************)
(* The timesheet sync: validate_work_hours on the missing clocking records *)
(* and upload_to_timesheets on what it returns.                            *)
(***************************************************************************)
\* clocking records not yet in Timesheets: same-day clock-in and clock-out
ClockOuts == {[fmt |-> "Z", t |-> 16], [fmt |-> "Z", t |-> 17], [fmt |-> "ms", t |-> 18]}

ClockingRecords ==
    {[employeePin |-> pin, clockIn |-> ci, clockOut |-> co] :
        pin \in Pins, ci \in ClockIns, co \in ClockOuts}

\* datetime.fromisoformat of the string without 'Z' and milliseconds, as UTC
parse_clock(dt) == dt.t

hours_worked(row) == parse_clock(row.clockOut) - parse_clock(row.clockIn)

\* the flagged rows are taken out of the returned record set
validate_work_hours_DropsFlagged(records_df) ==
    [records |-> SelectSeq(records_df, LAMBDA row : ~(hours_worked(row) > 8)),
     flagged |-> SelectSeq(records_df, LAMBDA row : hours_worked(row) > 8)]

validate_work_hours(records_df) ==
    [records |-> records_df,
     flagged |-> SelectSeq(records_df, LAMBDA row : hours_worked(row) > 8)]

\* pr_dt.isoformat(): the same instant written with the -04:00 offset
convert_utc_to_pr(dt) == [fmt |-> "pr", t |-> dt.t]

\* the reason strings upload_to_timesheets counts failures under
NoEmployeeReason(pin) ==
    IF pin = "0002" THEN "No employee found for PIN 0002" ELSE "No employee found for PIN 2"

ErrorReasons == {"Schema error", "Duplicate record", "API error"}

FailureReasons == ErrorReasons \cup {NoEmployeeReason(pin) : pin \in Pins}

\* the reason is noted once, however many records fail with it
count_failure_NotedOnce(failed_reasons, reason) ==
    [failed_reasons EXCEPT ![reason] = 1]

\* failed_reasons[reason] = failed_reasons.get(reason, 0) + 1; a reason that
\* is not a key of the dict has the count 0
count_failure(failed_reasons, reason) ==
    [failed_reasons EXCEPT ![reason] = @ + 1]

SyncCall(records, mapping) ==
    [fn |-> "sync", stage |-> "validate", records |-> records, mapping |-> mapping,
     missing_df |-> <<>>, flagged |-> <<>>, next |-> 1,
     created |-> {}, skipped |-> {}, errors |-> {},
     created_count |-> 0, failed_reasons |-> [reason \in FailureReasons |-> 0]]

InitClock ==
    /\ today = StartDay
    /\ payrolls = <<>>
    /\ timesheets = <<>>
    /\ employees = PayRates
    /\ RunInit
    /\ call \in {SyncCall(r, m) :
                    r \in {<<a>> : a \in ClockingRecords}
                          \cup (ClockingRecords \X ClockingRecords),
                    m \in SUBSET Pins}

ApplyValidateWorkHours ==
    /\ call.fn = "sync" /\ call.stage = "validate"
    /\ LET out == validate_work_hours(call.records)
       IN call' = [call EXCEPT !.missing_df = out.records, !.flagged = out.flagged,
                               !.stage = IF out.records = <<>> THEN "done" ELSE "upload"]
    /\ UNCHANGED <<store, runv, hist>>

AfterRow(n) == IF n = Len(call.missing_df) THEN "done" ELSE "upload"

\* createTimesheets succeeds for the next row
UploadRow ==
    /\ call.fn = "sync" /\ call.stage = "upload"
    /\ LET row == call.missing_df[call.next]
       IN /\ row.employeePin \in call.mapping
          /\ timesheets' = Append(timesheets,
                [employee_pin |-> row.employeePin, approved |-> "null",
                 timesheet_date |-> IsoStartOfDay(today),
                 clock_datetime |-> convert_utc_to_pr(row.clockIn),
                 clock_out_datetime |-> convert_utc_to_pr(row.clockOut),
                 payroll |-> NULL])
    /\ call' = [call EXCEPT !.created = @ \cup {call.next}, !.next = @ + 1,
                            !.created_count = @ + 1,
                            !.stage = AfterRow(call.next)]
    /\ UNCHANGED <<today, payrolls, employees, runv, hist>>

\* no employee record has the row's PIN: the row is skipped
UploadRowSkipped ==
    /\ call.fn = "sync" /\ call.stage = "upload"
    /\ call.missing_df[call.next].employeePin \notin call.mapping
    /\ call' = [call EXCEPT !.skipped = @ \cup {call.next}, !.next = @ + 1,
                            !.failed_reasons = count_failure(@,
                                NoEmployeeReason(call.missing_df[call.next].employeePin)),
                            !.stage = AfterRow(call.next)]
    /\ UNCHANGED <<store, runv, hist>>

\* run_graphql_query raises for the row's mutation
UploadRowFails ==
    /\ call.fn = "sync" /\ call.stage = "upload"
    /\ call.missing_df[call.next].employeePin \in call.mapping
    /\ \E reason \in ErrorReasons :
          call' = [call EXCEPT !.errors = @ \cup {call.next}, !.next = @ + 1,
                               !.failed_reasons = count_failure(@, reason),
                               !.stage = AfterRow(call.next)]
    /\ UNCHANGED <<store, runv, hist>>

NextClock == ApplyValidateWorkHours \/ UploadRow \/ UploadRowSkipped \/ UploadRowFails

SpecClock == InitClock /\ [][NextClock]_vars

\* rows of the input that last longer than 8 hours
LongRows == {n \in DOMAIN call.records : hours_worked(call.records[n]) > 8}

Reported(n) == \E f \in DOMAIN call.flagged : call.flagged[f] = call.records[n]

\* C28: advisory checks never block -- validate_work_hours hands its input
\* on unchanged and reports exactly the records longer than 8 hours; at the
\* end of the sync every such record whose PIN has an employee record and
\* whose mutation did not raise is in Timesheets.
C28_AdvisoryNeverBlocks ==
    (call.fn = "sync" /\ call.stage # "validate") =>
        /\ call.missing_df = call.records
        /\ \A n \in DOMAIN call.records : Reported(n) <=> n \in LongRows
        /\ call.stage = "done" =>
              \A n \in LongRows :
                  (call.records[n].employeePin \in call.mapping /\ n \notin call.errors)
                      => /\ n \in call.created
                         /\ \E i \in DOMAIN timesheets :
                                /\ timesheets[i].employee_pin = call.records[n].employeePin
                                /\ timesheets[i].clock_datetime.t = call.records[n].clockIn.t
                                /\ timesheets[i].clock_out_datetime.t = call.records[n].clockOut.t

\* a 10-hour record and an 8-hour record: only the first is flagged, both
\* are uploaded
C28_Witness ==
    /\ call.fn = "sync" /\ call.stage = "done"
    /\ Len(call.records) = 2
    /\ hours_worked(call.records[1]) = 10
    /\ hours_worked(call.records[2]) = 8
    /\ Len(call.flagged) = 1
    /\ call.created = {1, 2}
    /\ Len(timesheets) = 2


\* groups of the finished run whose write was made and whose verification passed
SucceededGroups ==
    {k \in DOMAIN grouped_timesheets :
        /\ ~grouped_timesheets[k].skip
        /\ grouped_timesheets[k].employee_pin \in log.written
        /\ grouped_timesheets[k].employee_pin \notin log.vfail}

\* C29: marking processed after success -- when a run has gone through its
\* loop, the timesheets of every group that was written and verified have
\* been counted in processed_count.
C29_MarkedAfterSuccess ==
    (pc = "idle" /\ log.outcome = "done") =>
        \A k \in SucceededGroups :
            processed_count >= Len(grouped_timesheets[k].timesheets)


\* C30: verification after an update -- when an update has added ids to a
\* record whose relation set was not empty and the store holds the merged
\* set, the verification of the group passes.
C30_VerifyAfterUpdate ==
    (/\ call.fn = "update" /\ call.verified
     /\ call.writes # <<>>
     /\ call.record.related # {}
     /\ RelatedTimesheets(timesheets, call.record.id)
            = call.record.related \cup Range(call.group.timesheets))
        => call.is_valid


\* C31: skipped groups stay skipped -- for a group the pre-check has put
\* into groups_to_skip the loop makes no lookup, no update call and no
\* verification, and updated_count is not increased.
C31_SkippedStaySkipped ==
    (call.fn = "update" /\ call.group.skip) =>
        /\ ~call.done
        /\ ~call.verified
        /\ updated_count = 0


(***************************************************************************)
(* find_existing_payroll applied on its own: two timesheets, each unlinked *)
(* or linked to any record of the table, also one of another employee or   *)
(* another period.                                                         *)
(***************************************************************************)
LookupRows(ps) ==
    {[FetchedTimesheet(x[1], "b:true", StartDay) EXCEPT !.payroll = x[2]] :
        x \in Pins \X ({NULL} \cup DOMAIN ps)}

LookupCall(pin, period, ids) ==
    [fn |-> "lookup", employee_pin |-> pin, pay_period |-> period,
     timesheet_ids |-> ids, out |-> NoPayroll, raised |-> FALSE, done |-> FALSE]

InitLookup ==
    /\ today = StartDay
    /\ payrolls \in PayrollTables
    /\ timesheets \in LookupRows(payrolls) \X LookupRows(payrolls)
    /\ employees = PayRates
    /\ RunInit
    /\ call \in {LookupCall(pin, period, ids) :
                    pin \in Pins, period \in {Period0, Period1},
                    ids \in {{1}, {2}, {1, 2}}}

ApplyLookup ==
    /\ call.fn = "lookup" /\ ~call.done
    /\ call' = [call EXCEPT
                    !.out = find_existing_payroll(timesheets, payrolls, call.employee_pin,
                                                  call.pay_period, call.timesheet_ids),
                    !.done = TRUE]
    /\ UNCHANGED <<store, runv, hist>>

\* the query raises: the exception is caught and None is returned
ApplyLookupRaises ==
    /\ call.fn = "lookup" /\ ~call.done
    /\ call' = [call EXCEPT !.out = NoPayroll, !.raised = TRUE, !.done = TRUE]
    /\ UNCHANGED <<store, runv, hist>>

NextLookup == ApplyLookup \/ ApplyLookupRaises

SpecLookup == InitLookup /\ [][NextLookup]_vars

LookupDone == call.fn = "lookup" /\ call.done

\* timesheet i is one of the call's ids and is linked to a record of the
\* call's employee and period
OwnLink(i) ==
    /\ i \in call.timesheet_ids
    /\ timesheets[i].payroll # NULL
    /\ payrolls[timesheets[i].payroll].employee_id = call.employee_pin
    /\ payrolls[timesheets[i].payroll].pay_period_start.date = call.pay_period.start_date
    /\ payrolls[timesheets[i].payroll].pay_period_end.date = call.pay_period.end_date

\* C32: lookup never returns a foreign record -- a record returned has the
\* call's employee and period and is the record of one of the call's
\* timesheets; when none of the call's timesheets is linked to such a
\* record the result is None, whatever other records they are linked to.
C32_NoForeignRecord ==
    LookupDone =>
        /\ call.out # NoPayroll =>
              /\ call.out.id \in DOMAIN payrolls
              /\ payrolls[call.out.id].employee_id = call.employee_pin
              /\ payrolls[call.out.id].pay_period_start.date = call.pay_period.start_date
              /\ payrolls[call.out.id].pay_period_end.date = call.pay_period.end_date
              /\ \E i \in DOMAIN timesheets : OwnLink(i) /\ timesheets[i].payroll = call.out.id
        /\ (~\E i \in DOMAIN timesheets : OwnLink(i)) => call.out = NoPayroll

\* the first timesheet is linked to another employee's record and passed
\* over; the second one's record is returned
C32_Witness ==
    /\ LookupDone
    /\ call.timesheet_ids = {1, 2}
    /\ timesheets[1].payroll # NULL
    /\ payrolls[timesheets[1].payroll].employee_id # call.employee_pin
    /\ OwnLink(2)
    /\ call.out.id = timesheets[2].payroll


\* C33: escalating backoff -- the k-th wait of a call is RETRY_DELAY * k
\* seconds, there are at most MAX_RETRIES waits, so the waits are a prefix of
\* 2, 4, 6 and strictly increase, whatever the failures were.
C33_EscalatingBackoff ==
    call.fn = "graphql" =>
        /\ Len(call.waits) <= MAX_RETRIES
        /\ \A k \in DOMAIN call.waits :
              /\ call.waits[k] = RETRY_DELAY * k
              /\ call.waits[k] = <<2, 4, 6>>[k]
              /\ k > 1 => call.waits[k] > call.waits[k - 1]

\* three retries after three different failures
C33_Witness ==
    /\ call.fn = "graphql"
    /\ call.waits = <<2, 4, 6>>
    /\ call.responses[1].status_code = 429
    /\ call.responses[2].kind = "ConnectionError"
    /\ call.responses[3].status_code = 500


(***************************************************************************)
(* _run_graphql of the export script.  The retries after 429 and 5xx are   *)
(* nested calls made inside the try block, the retries after Timeout and   *)
(* ConnectionError are nested calls made inside the except clauses, and at *)
(* the cap the except clauses re-raise the requests exception itself: the  *)
(* stack of invocations decides which frame catches it.                    *)
(***************************************************************************)
EXPORT_MAX_RETRIES == 3

ExportResponses ==
    {Http(200, FALSE), Http(200, TRUE), Http(401, FALSE), Http(429, FALSE),
     Http(500, FALSE)}

Frame(rc, pos) == [retry_count |-> rc, pos |-> pos]

Front(st) == SubSeq(st, 1, Len(st) - 1)

\* the top frame makes its nested call from pos
Recurse(st, pos) ==
    LET top == st[Len(st)]
    IN Append(Append(Front(st), Frame(top.retry_count, pos)),
              Frame(top.retry_count + 1, "request"))

\* a Timeout or ConnectionError leaves a nested call and reaches the frames
\* of st: a frame waiting in its try block catches it, a frame waiting in
\* an except clause lets it pass
RECURSIVE Propagate(_)
Propagate(st) ==
    IF st = <<>> THEN [stack |-> <<>>, status |-> "raised"]
    ELSE LET p == st[Len(st)]
         IN IF p.pos = "try" /\ p.retry_count < EXPORT_MAX_RETRIES
            THEN [stack |-> Recurse(st, "except"), status |-> "running"]
            ELSE Propagate(Front(st))

\* what the invocation on top of the stack does with r
export_step(st, r) ==
    LET rc == st[Len(st)].retry_count
    IN IF r.kind \in {"Timeout", "ConnectionError"}
       THEN IF rc < EXPORT_MAX_RETRIES
            THEN [stack |-> Recurse(st, "except"), status |-> "running"]
            ELSE Propagate(Front(st))
       ELSE IF r.status_code = 429 /\ rc < EXPORT_MAX_RETRIES
       THEN [stack |-> Recurse(st, "try"), status |-> "running"]
       ELSE IF r.status_code >= 500 /\ rc < EXPORT_MAX_RETRIES
       THEN [stack |-> Recurse(st, "try"), status |-> "running"]
       ELSE IF r.status_code = 401 THEN [stack |-> <<>>, status |-> "raised"]
       ELSE IF r.status_code # 200 THEN [stack |-> <<>>, status |-> "raised"]
       ELSE IF r.errors THEN [stack |-> <<>>, status |-> "raised"]
       ELSE [stack |-> <<>>, status |-> "returned"]

ExportCall ==
    [fn |-> "export_graphql", stack |-> <<Frame(0, "request")>>, requests |-> 0,
     seen |-> {}, status |-> "running"]

InitExportRetry ==
    /\ today = StartDay
    /\ payrolls = <<>>
    /\ timesheets = <<>>
    /\ employees = PayRates
    /\ RunInit
    /\ call = ExportCall

ExportInvocation(r) ==
    /\ call.fn = "export_graphql" /\ call.status = "running"
    /\ LET out == export_step(call.stack, r)
       IN call' = [call EXCEPT
                      !.requests = @ + 1,
                      !.seen = @ \cup {r},
                      !.stack = out.stack,
                      !.status = out.status]
    /\ UNCHANGED <<store, runv, hist>>

ExportRequestAnswered == \E r \in ExportResponses : ExportInvocation(r)

ExportRequestFails == \E r \in RequestExceptions : ExportInvocation(r)

NextExportRetry == ExportRequestAnswered \/ ExportRequestFails

SpecExportRetry == InitExportRetry /\ [][NextExportRetry]_vars

\* C34: export retry cap -- one top-level call of _run_graphql sends at most
\* MAX_RETRIES + 1 requests.
C34_ExportRetryCap ==
    call.fn = "export_graphql" => call.requests <= EXPORT_MAX_RETRIES + 1


(***************************************************************************)
(* The paginated fetches.  get_all_timesheets, get_all_payroll and         *)
(* fetch_all_records loop "while has_more_pages" and send the query        *)
(* without a cursor whenever cursor is empty; _fetch_timesheets breaks on  *)
(* hasNextPage false and on an empty endCursor.  The server holds MaxPages *)
(* pages; page k carries record k and the cursor k, or no cursor.          *)
(***************************************************************************)
MaxPages == 3
MaxRequests == 5
NoCursor == 0

ServerPage(k, more, given) ==
    [records |-> <<k>>, hasNextPage |-> more,
     endCursor |-> IF given THEN k ELSE NoCursor]

\* the last page does not point behind the collection
Servers ==
    {pp \in [1..MaxPages -> BOOLEAN \X BOOLEAN] :
        ~(pp[MaxPages][1] /\ pp[MaxPages][2])}

FetchKinds == {"while_has_more_pages", "break_on_no_cursor"}

FetchCall(kind, pp) ==
    [fn |-> "fetch", kind |-> kind,
     pages |-> [k \in 1..MaxPages |-> ServerPage(k, pp[k][1], pp[k][2])],
     cursor |-> NoCursor, requested |-> <<>>, all_records |-> <<>>,
     status |-> "running"]

InitPaging ==
    /\ today = StartDay
    /\ payrolls = <<>>
    /\ timesheets = <<>>
    /\ employees = PayRates
    /\ RunInit
    /\ call \in {FetchCall(kind, pp) : kind \in FetchKinds, pp \in Servers}

\* the page the server returns for a query with or without "after"
page_for(cursor) == IF cursor = NoCursor THEN 1 ELSE cursor + 1

\* one iteration of the loop
FetchPage ==
    /\ call.fn = "fetch" /\ call.status = "running"
    /\ Len(call.requested) < MaxRequests
    /\ LET n == page_for(call.cursor)
           page == call.pages[n]
           goes_on == IF call.kind = "while_has_more_pages"
                      THEN page.hasNextPage
                      ELSE page.hasNextPage /\ page.endCursor # NoCursor
       IN call' = [call EXCEPT
                      !.requested = Append(@, n),
                      !.all_records = @ \o page.records,
                      !.cursor = IF call.kind = "break_on_no_cursor" /\ ~page.hasNextPage
                                 THEN @ ELSE page.endCursor,
                      !.status = IF goes_on THEN "running" ELSE "returned"]
    /\ UNCHANGED <<store, runv, hist>>

NextPaging == FetchPage

SpecPaging == InitPaging /\ [][NextPaging]_vars

\* C35: pagination completeness and termination -- no page is requested
\* twice, the pages are requested in cursor order and their records
\* concatenated, and the fetch has returned as soon as the page it last
\* received reports hasNextPage false or carries no endCursor.
C35_Pagination ==
    call.fn = "fetch" =>
        /\ \A j, k \in DOMAIN call.requested :
              j # k => call.requested[j] # call.requested[k]
        /\ \A k \in DOMAIN call.requested : call.requested[k] = k
        /\ call.all_records = call.requested
        /\ call.requested # <<>> =>
              LET last == call.pages[call.requested[Len(call.requested)]]
              IN (~last.hasNextPage \/ last.endCursor = NoCursor)
                     => call.status = "returned"


(***************************************************************************)
(* validate_no_duplicate_clock_times applied on its own: three timesheets  *)
(* whose clock values are missing, unparseable, or ISO strings with a 'Z', *)
(* with milliseconds or with the -04:00 offset.                            *)
(***************************************************************************)
ClockInValues ==
    {NoClock, [fmt |-> "Z", t |-> 8], [fmt |-> "ms", t |-> 8], [fmt |-> "ms", t |-> 9],
     [fmt |-> "pr", t |-> 12], [fmt |-> "unparseable", t |-> 8]}

ClockOutValues ==
    {NoClock, ClockOut, [fmt |-> "ms", t |-> 18], [fmt |-> "pr", t |-> 21]}

ClockRows ==
    {[FetchedTimesheet("2", "b:true", StartDay) EXCEPT
          !.clock_datetime = x[1], !.clock_out_datetime = x[2]] :
        x \in ClockInValues \X ClockOutValues}

ClockDupCall ==
    [fn |-> "clock_times", ids |-> <<1, 2, 3>>, is_valid |-> FALSE, errors |-> 0,
     agrees |-> FALSE, done |-> FALSE]

InitClockDup ==
    /\ today = StartDay
    /\ payrolls = <<>>
    /\ timesheets \in ClockRows \X ClockRows \X ClockRows
    /\ employees = PayRates
    /\ RunInit
    /\ call = ClockDupCall

ApplyClockDup ==
    /\ call.fn = "clock_times" /\ ~call.done
    /\ LET n == clock_time_errors(timesheets, call.ids)
       IN call' = [call EXCEPT
                      !.errors = n,
                      !.is_valid = (n = 0),
                      !.agrees = ((n = 0) = validate_no_duplicate_clock_times(
                                                timesheets, call.ids)),
                      !.done = TRUE]
    /\ UNCHANGED <<store, runv, hist>>

NextClockDup == ApplyClockDup

SpecClockDup == InitClockDup /\ [][NextClockDup]_vars

ClockDupDone == call.fn = "clock_times" /\ call.done

Parseable(v) == v # NoClock /\ v.fmt \in {"Z", "ms", "pr"}

\* timesheets with both clock values present and parseable
WithPair ==
    {i \in DOMAIN timesheets : /\ Parseable(timesheets[i].clock_datetime)
                               /\ Parseable(timesheets[i].clock_out_datetime)}

NormalizedPair(i) ==
    <<normalize_datetime_for_comparison(timesheets[i].clock_datetime),
      normalize_datetime_for_comparison(timesheets[i].clock_out_datetime)>>

\* C36: duplicate-clock detector result -- the validation fails exactly when
\* two timesheets with both clock values present and parseable have equal
\* normalized pairs, and the number of errors is the number of such
\* timesheets minus the number of distinct pairs among them.
C36_ClockDetector ==
    ClockDupDone =>
        /\ call.is_valid <=>
              ~\E i, j \in WithPair : i # j /\ NormalizedPair(i) = NormalizedPair(j)
        /\ call.errors = Cardinality(WithPair)
                             - Cardinality({NormalizedPair(i) : i \in WithPair})
        /\ call.agrees

\* three timesheets with the same pair written in three formats, two errors
C36_Witness ==
    /\ ClockDupDone
    /\ timesheets[1].clock_datetime.fmt = "Z"
    /\ timesheets[2].clock_datetime.fmt = "ms"
    /\ timesheets[3].clock_datetime.fmt = "pr"
    /\ WithPair = {1, 2, 3}
    /\ call.errors = 2


(***************************************************************************)
(* The export script's period functions applied on their own: its own      *)
(* calculator beside the reconciliation script's on a datetime of the same *)
(* calendar date, and the period run_export selects for a given today.     *)
(***************************************************************************)
\* 2026-01-12 as a day number
REFERENCE_MONDAY == 0

\* the period started at the Monday of the target's own week
_pay_period_for_WeekStart(target_date) ==
    LET monday == target_date - weekday(target_date)
    IN [start_date |-> monday, end_date |-> monday + 13]

_pay_period_for(target_date) ==
    LET monday == target_date - weekday(target_date)
        days_from_ref == monday - REFERENCE_MONDAY
        period_num == days_from_ref \div 14
        start == REFERENCE_MONDAY + period_num * 14
    IN [start_date |-> start, end_date |-> start + 13]

\* the period of today also on the first day of a period
export_period_NoSpecialCase(d) == _pay_period_for(d)

\* run_export up to the period it prints
export_period(d) ==
    LET period == _pay_period_for(d)
        period_start_date == period.start_date
    IN IF d = period_start_date
       THEN LET prev_period_start == period_start_date - 14
            IN [start_date |-> prev_period_start, end_date |-> prev_period_start + 13]
       ELSE period

BothCall(d, dt) ==
    [fn |-> "both_periods", date |-> d, arg |-> dt, export |-> NoPeriod,
     out |-> NoPeriod, done |-> FALSE]

ExportCallOn(d) ==
    [fn |-> "run_export", date |-> d, arg |-> DateTime(d, 0, "naive"),
     export |-> NoPeriod, out |-> NoPeriod, done |-> FALSE]

InitExportPeriod ==
    /\ EngineInit
    /\ call \in {BothCall(d, DateTime(d, h, z)) :
                     d \in Days, h \in Hours, z \in {"naive", "pr"}}
                \cup {ExportCallOn(d) : d \in Days}

ApplyBothPeriods ==
    /\ call.fn = "both_periods" /\ ~call.done
    /\ call' = [call EXCEPT !.export = _pay_period_for(call.date),
                            !.out = calculate_biweekly_pay_period(call.arg),
                            !.done = TRUE]
    /\ UNCHANGED <<store, runv, hist>>

ApplyRunExport ==
    /\ call.fn = "run_export" /\ ~call.done
    /\ call' = [call EXCEPT !.export = export_period(call.date), !.done = TRUE]
    /\ UNCHANGED <<store, runv, hist>>

NextExportPeriod == ApplyBothPeriods \/ ApplyRunExport

SpecExportPeriod == InitExportPeriod /\ [][NextExportPeriod]_vars

\* C37: the two period calculators agree -- for every calendar date D the
\* export script's _pay_period_for(D) and the reconciliation script's
\* calculate_biweekly_pay_period on a datetime of that date return the same
\* start_date and end_date.
C37_CalculatorsAgree ==
    (call.fn = "both_periods" /\ call.done) =>
        /\ call.export.start_date = call.out.start_date
        /\ call.export.end_date = call.out.end_date

\* a Wednesday of the second week of a period, before the reference Monday
C37_Witness ==
    /\ call.fn = "both_periods" /\ call.done
    /\ call.date = 0 - 5
    /\ call.export = [start_date |-> 0 - 14, end_date |-> 0 - 1]

FirstDayOfPeriod(d) == (d - REFERENCE_MONDAY) % 14 = 0

\* C38: export period selection -- run_export covers the pay period that
\* contains today, except on the first day of a period, when it covers the
\* period just before (start = today - 14 days, end = today - 1 day).
C38_ExportPeriod ==
    (call.fn = "run_export" /\ call.done) =>
        IF FirstDayOfPeriod(call.date)
        THEN call.export = [start_date |-> call.date - 14, end_date |-> call.date - 1]
        ELSE /\ FirstDayOfPeriod(call.export.start_date)
             /\ call.export.end_date = call.export.start_date + 13
             /\ call.export.start_date <= call.date
             /\ call.date <= call.export.end_date

\* today is 2026-01-26, the first day of the second period
C38_Witness ==
    /\ call.fn = "run_export" /\ call.done
    /\ call.date = 14
    /\ call.export = [start_date |-> 0, end_date |-> 13]


\* sum(failed_reasons.values())
RECURSIVE SumOver(_, _)
SumOver(f, S) ==
    IF S = {} THEN 0
    ELSE LET x == CHOOSE y \in S : TRUE IN f[x] + SumOver(f, S \ {x})

FailedTotal == SumOver(call.failed_reasons, FailureReasons)

\* C39: upload accounting in the timesheet sync -- once upload_to_timesheets
\* has gone through a non-empty record set, created_count plus the sum of
\* the failed_reasons counts is the number of input records; a record whose
\* PIN has no employee mapping or whose mutation raises is counted as failed
\* and the records after it are still uploaded.
C39_UploadAccounting ==
    (call.fn = "sync" /\ call.stage \in {"upload", "done"}) =>
        /\ call.created_count + FailedTotal = call.next - 1
        /\ call.created_count = Len(timesheets)
        /\ call.stage = "done" =>
              /\ call.missing_df # <<>>
              /\ call.created_count + FailedTotal = Len(call.missing_df)
              /\ FailedTotal = Cardinality(call.skipped \cup call.errors)
              /\ \A n \in DOMAIN call.missing_df :
                    IF call.missing_df[n].employeePin \notin call.mapping
                    THEN /\ n \in call.skipped
                         /\ call.failed_reasons[
                                NoEmployeeReason(call.missing_df[n].employeePin)] >= 1
                    ELSE n \in call.errors \/ n \in call.created

\* two records: the first has no employee for its PIN, the second is created
C39_Witness ==
    /\ call.fn = "sync" /\ call.stage = "done"
    /\ Len(call.missing_df) = 2
    /\ call.skipped = {1}
    /\ call.created = {2}
    /\ call.created_count = 1
    /\ FailedTotal = 1
    /\ Len(timesheets) = 1

\* two records whose mutations both raise with the same reason
C39_WitnessRaises ==
    /\ call.fn = "sync" /\ call.stage = "done"
    /\ call.errors = {1, 2}
    /\ call.failed_reasons["API error"] = 2

====
